---- MODULE Spec2Model ----
(***************************************************************************)
(* Model of gesture_recognition.py: GestureRecognitionApp.detect_fingers,  *)
(* detect_gesture and the frame loop of run.                               *)
(*                                                                         *)
(* Python strings are modelled as sequences of one-character strings, so   *)
(* that str.split(' '), str.strip() and concatenation are computed.        *)
(* A landmark set is a function 0..20 -> [x, y].                           *)
(***************************************************************************)
EXTENDS Integers, Sequences, FiniteSets, TLC

VARIABLES
    pc,                \* position in run (or in the function harness)
    gesture_map,       \* self.gesture_map
    cap_opened,        \* result of cap.isOpened()
    frames,            \* number of cap.read() calls made so far
    trace,             \* external calls made since (and including) the last cap.read()
    num_hands,         \* len(hand_results.multi_hand_landmarks), 0 when None
    multi_handedness,  \* truthiness of hand_results.multi_handedness
    hand_idx,          \* hand_idx of the enumerate loop
    hand_landmarks,    \* hand_landmarks of the current hand
    handedness_label,  \* handedness_label
    fingers_status,    \* fingers_status
    swapped_status,    \* harness: detect_fingers on the same landmarks, other label
    gesture_text,      \* gesture_text
    words,             \* words
    word_idx,          \* number of words the wrapping loop has consumed
    lines,             \* lines
    current_line,      \* current_line
    text_w,            \* text_w of the last cv2.getTextSize call
    glyph_w,           \* font metric: pixels per character of cv2.getTextSize
    key,               \* value returned by the last cv2.waitKey(1)
    n_release,         \* number of cap.release() calls
    n_destroy          \* number of cv2.destroyAllWindows() calls

vars == <<pc, gesture_map, cap_opened, frames, trace, num_hands,
          multi_handedness, hand_idx, hand_landmarks, handedness_label,
          fingers_status, swapped_status, gesture_text, words, word_idx,
          lines, current_line, text_w, glyph_w, key, n_release, n_destroy>>

----------------------------------------------------------------------------
(* Bounds *)

MaxFrames == 2
MaxFaces == 1
MaxCoord == 1

(* Program constants *)

max_num_hands == 2
max_width == 200
ord_q == 113

----------------------------------------------------------------------------
(* The labels of the gesture table, as character sequences *)

\* "Kepalan Tangan (Fist)"
L_Fist ==
    <<"K", "e", "p", "a", "l", "a", "n", " ", "T", "a", "n", "g", "a", "n", " ", "(", "F", "i", "s", "t", ")">>
\* "Mantap"
L_Mantap ==
    <<"M", "a", "n", "t", "a", "p">>
\* "Nama Saya"
L_NamaSaya ==
    <<"N", "a", "m", "a", " ", "S", "a", "y", "a">>
\* "Ersaf Sirazi Arifin"
L_Ersaf ==
    <<"E", "r", "s", "a", "f", " ", "S", "i", "r", "a", "z", "i", " ", "A", "r", "i", "f", "i", "n">>
\* "Kelas"
L_Kelas ==
    <<"K", "e", "l", "a", "s">>
\* "XI PPLG 2"
L_XIPPLG2 ==
    <<"X", "I", " ", "P", "P", "L", "G", " ", "2">>
\* "Halo"
L_Halo ==
    <<"H", "a", "l", "o">>
\* "Rock n Roll"
L_RockNRoll ==
    <<"R", "o", "c", "k", " ", "n", " ", "R", "o", "l", "l">>
\* "NGENTOT LO ANJING TAI BANGSAT"
L_Rude ==
    <<"N", "G", "E", "N", "T", "O", "T", " ", "L", "O", " ", "A", "N", "J", "I", "N", "G", " ", "T", "A", "I", " ", "B", "A", "N", "G", "S", "A", "T">>
\* "Unknown Gesture"
L_Unknown ==
    <<"U", "n", "k", "n", "o", "w", "n", " ", "G", "e", "s", "t", "u", "r", "e">>

----------------------------------------------------------------------------
(* Python dict: a function from its keys to their values *)

EmptyDict == [k \in {} |-> <<>>]

DictSet(d, k, v) ==
    [x \in (DOMAIN d) \cup {k} |-> IF x = k THEN v ELSE d[x]]

DictGet(d, k, default) ==
    IF k \in DOMAIN d THEN d[k] ELSE default

\* A dict display {k1: v1, k2: v2, ...} inserts its items left to right.
RECURSIVE DictLiteralFrom(_, _)
DictLiteralFrom(d, entries) ==
    IF entries = <<>> THEN d
    ELSE DictLiteralFrom(DictSet(d, Head(entries)[1], Head(entries)[2]),
                         Tail(entries))

DictLiteral(entries) == DictLiteralFrom(EmptyDict, entries)

\* Variant: the two items written for the all-open key in the other order.
GestureEntries_swapped ==
    << << <<1, 1, 1, 1, 1>>, L_Halo >>,
       << <<1, 0, 0, 0, 0>>, L_Mantap >>,
       << <<0, 1, 0, 0, 0>>, L_NamaSaya >>,
       << <<0, 1, 1, 0, 0>>, L_Ersaf >>,
       << <<0, 1, 1, 1, 0>>, L_Kelas >>,
       << <<0, 1, 1, 1, 1>>, L_XIPPLG2 >>,
       << <<1, 1, 1, 1, 1>>, L_Fist >>,
       << <<0, 1, 0, 0, 1>>, L_RockNRoll >>,
       << <<1, 1, 0, 0, 1>>, L_XIPPLG2 >>,
       << <<0, 0, 1, 0, 0>>, L_Rude >> >>

\* The items of the self.gesture_map display, in source order.
GestureEntries ==
    << << <<1, 1, 1, 1, 1>>, L_Fist >>,
       << <<1, 0, 0, 0, 0>>, L_Mantap >>,
       << <<0, 1, 0, 0, 0>>, L_NamaSaya >>,
       << <<0, 1, 1, 0, 0>>, L_Ersaf >>,
       << <<0, 1, 1, 1, 0>>, L_Kelas >>,
       << <<0, 1, 1, 1, 1>>, L_XIPPLG2 >>,
       << <<1, 1, 1, 1, 1>>, L_Halo >>,
       << <<0, 1, 0, 0, 1>>, L_RockNRoll >>,
       << <<1, 1, 0, 0, 1>>, L_XIPPLG2 >>,
       << <<0, 0, 1, 0, 0>>, L_Rude >> >>

----------------------------------------------------------------------------
(* detect_fingers *)

tip_ids == <<4, 8, 12, 16, 20>>

\* Variant: the left-hand branch repeats the right-hand comparison.
ThumbState_noflip(lm, label) ==
    IF lm[tip_ids[1]].x < lm[tip_ids[1] - 1].x THEN 1 ELSE 0

\* The thumb: tip (4) against the adjacent joint (3), by x.
ThumbState(lm, label) ==
    IF label = "Right"
    THEN (IF lm[tip_ids[1]].x < lm[tip_ids[1] - 1].x THEN 1 ELSE 0)
    ELSE (IF lm[tip_ids[1]].x > lm[tip_ids[1] - 1].x THEN 1 ELSE 0)

\* Variant: a tip level with its joint counts as open.
FingerState_le(lm, id) ==
    IF lm[tip_ids[id]].y <= lm[tip_ids[id] - 2].y THEN 1 ELSE 0

\* One of the other four fingers, id in 2..5 (range(1, 5), one-based here).
FingerState(lm, id) ==
    IF lm[tip_ids[id]].y < lm[tip_ids[id] - 2].y THEN 1 ELSE 0

detect_fingers(lm, label) ==
    <<ThumbState(lm, label)>> \o [i \in 1..4 |-> FingerState(lm, i + 1)]

(* detect_gesture *)

\* Variant: dict.get without the default label.
detect_gesture_nodefault(map, fingers) ==
    DictGet(map, fingers, <<>>)

detect_gesture(map, fingers) ==
    DictGet(map, fingers, L_Unknown)

----------------------------------------------------------------------------
(* str.split(' '), str.strip() and cv2.getTextSize *)

\* s.split(' '): cuts at every single space, keeping empty pieces.
RECURSIVE SplitFrom(_, _, _)
SplitFrom(s, cur, acc) ==
    IF s = <<>> THEN Append(acc, cur)
    ELSE IF Head(s) = " " THEN SplitFrom(Tail(s), <<>>, Append(acc, cur))
    ELSE SplitFrom(Tail(s), Append(cur, Head(s)), acc)

Split(s) == SplitFrom(s, <<>>, <<>>)

RECURSIVE LStrip(_)
LStrip(s) ==
    IF s # <<>> /\ Head(s) = " " THEN LStrip(Tail(s)) ELSE s

RECURSIVE RStrip(_)
RStrip(s) ==
    IF s # <<>> /\ s[Len(s)] = " " THEN RStrip(SubSeq(s, 1, Len(s) - 1)) ELSE s

Strip(s) == RStrip(LStrip(s))

\* Width in pixels of the rendered text: every character takes gw pixels.
getTextSize(s, gw) == gw * Len(s)

----------------------------------------------------------------------------
(* Inputs *)

Coord == 0..MaxCoord

\* A landmark set with thumb tip x = tx, thumb joint x = jx, and for the
\* k-th other finger tip y = ys[k][1] and middle-joint y = ys[k][2].
MkHand(tx, jx, ys) ==
    [i \in 0..20 |->
        [x |-> IF i = 4 THEN tx ELSE IF i = 3 THEN jx ELSE 0,
         y |-> IF \E k \in 1..4 : i = tip_ids[k + 1]
               THEN ys[CHOOSE k \in 1..4 : i = tip_ids[k + 1]][1]
               ELSE IF \E k \in 1..4 : i = tip_ids[k + 1] - 2
               THEN ys[CHOOSE k \in 1..4 : i = tip_ids[k + 1] - 2][2]
               ELSE 0]]

\* Landmark sets handed to detect_fingers by the function harness.
TestHands ==
    {MkHand(tx, jx, ys) : tx \in Coord, jx \in Coord,
                          ys \in [1..4 -> Coord \X Coord]}

TestLabels == {"Left", "Right", "Other"}

\* Landmark sets the hand detector reports inside run: every thumb
\* relation, every other finger either raised or level with its joint.
RunHands ==
    {MkHand(tx, jx, ys) : tx \in 0..1, jx \in 0..1,
                          ys \in [1..4 -> {<<0, 1>>, <<1, 1>>}]}

\* Labels of MediaPipe's handedness classification.
Labels == {"Left", "Right"}

\* Values cv2.waitKey(1) returns: no key, 'q', 'Q', 'q' with a modifier bit.
Keys == {-1, 113, 81, 369}

\* Font metrics tried for cv2.getTextSize.
GlyphWidths == {1, 10, 15, 250}

NoHand == MkHand(0, 0, [k \in 1..4 |-> <<0, 0>>])

LoopPCs == {"read", "face", "hands", "hand", "fingers", "gesture",
            "status", "wrap", "show", "key"}

----------------------------------------------------------------------------
(* State after GestureRecognitionApp() and on entry to run *)

InitCommon ==
    /\ gesture_map = DictLiteral(GestureEntries)
    /\ cap_opened = FALSE
    /\ frames = 0
    /\ trace = <<>>
    /\ num_hands = 0
    /\ multi_handedness = FALSE
    /\ hand_idx = 0
    /\ fingers_status = <<>>
    /\ swapped_status = <<>>
    /\ gesture_text = <<>>
    /\ words = <<>>
    /\ word_idx = 0
    /\ lines = <<>>
    /\ current_line = <<>>
    /\ text_w = 0
    /\ key = -1
    /\ n_release = 0
    /\ n_destroy = 0

Init ==
    /\ InitCommon
    /\ pc = "start"
    /\ hand_landmarks = NoHand
    /\ handedness_label = "Right"
    /\ glyph_w \in GlyphWidths

----------------------------------------------------------------------------
(* run *)

\* Variant: the return after the error message is missing.
OpenCameraFail_noreturn ==
    /\ pc = "start"
    /\ cap_opened' = FALSE
    /\ trace' = Append(trace, "print_error")
    /\ pc' = "read"
    /\ UNCHANGED <<gesture_map, frames, num_hands, multi_handedness, hand_idx,
                   hand_landmarks, handedness_label, fingers_status,
                   swapped_status, gesture_text, words, word_idx, lines,
                   current_line, text_w, glyph_w, key, n_release, n_destroy>>

\* cap = cv2.VideoCapture(0); not cap.isOpened(): print, return
OpenCameraFail ==
    /\ pc = "start"
    /\ cap_opened' = FALSE
    /\ trace' = Append(trace, "print_error")
    /\ pc' = "done"
    /\ UNCHANGED <<gesture_map, frames, num_hands, multi_handedness, hand_idx,
                   hand_landmarks, handedness_label, fingers_status,
                   swapped_status, gesture_text, words, word_idx, lines,
                   current_line, text_w, glyph_w, key, n_release, n_destroy>>

\* cap.isOpened(): print the banner and enter the loop
OpenCameraOk ==
    /\ pc = "start"
    /\ cap_opened' = TRUE
    /\ trace' = Append(trace, "print_running")
    /\ pc' = "read"
    /\ UNCHANGED <<gesture_map, frames, num_hands, multi_handedness, hand_idx,
                   hand_landmarks, handedness_label, fingers_status,
                   swapped_status, gesture_text, words, word_idx, lines,
                   current_line, text_w, glyph_w, key, n_release, n_destroy>>

\* success, img = cap.read() with success; flip, cvtColor
ReadFrameOk ==
    /\ pc = "read"
    /\ frames < MaxFrames
    /\ frames' = frames + 1
    /\ trace' = <<"read">>
    /\ pc' = "face"
    /\ UNCHANGED <<gesture_map, cap_opened, num_hands, multi_handedness,
                   hand_idx, hand_landmarks, handedness_label, fingers_status,
                   swapped_status, gesture_text, words, word_idx, lines,
                   current_line, text_w, glyph_w, key, n_release, n_destroy>>

\* Variant: continue instead of break.
ReadFrameFail_continue ==
    /\ pc = "read"
    /\ frames < MaxFrames
    /\ frames' = frames + 1
    /\ trace' = <<"read_fail", "print_read_fail">>
    /\ pc' = "read"
    /\ UNCHANGED <<gesture_map, cap_opened, num_hands, multi_handedness,
                   hand_idx, hand_landmarks, handedness_label, fingers_status,
                   swapped_status, gesture_text, words, word_idx, lines,
                   current_line, text_w, glyph_w, key, n_release, n_destroy>>

\* Variant: return instead of break.
ReadFrameFail_return ==
    /\ pc = "read"
    /\ frames < MaxFrames
    /\ frames' = frames + 1
    /\ trace' = <<"read_fail", "print_read_fail">>
    /\ pc' = "done"
    /\ UNCHANGED <<gesture_map, cap_opened, num_hands, multi_handedness,
                   hand_idx, hand_landmarks, handedness_label, fingers_status,
                   swapped_status, gesture_text, words, word_idx, lines,
                   current_line, text_w, glyph_w, key, n_release, n_destroy>>

\* success, img = cap.read() without success: print, break
ReadFrameFail ==
    /\ pc = "read"
    /\ frames < MaxFrames
    /\ frames' = frames + 1
    /\ trace' = <<"read_fail", "print_read_fail">>
    /\ pc' = "release"
    /\ UNCHANGED <<gesture_map, cap_opened, num_hands, multi_handedness,
                   hand_idx, hand_landmarks, handedness_label, fingers_status,
                   swapped_status, gesture_text, words, word_idx, lines,
                   current_line, text_w, glyph_w, key, n_release, n_destroy>>

\* n copies of e
Repeat(e, n) == [i \in 1..n |-> e]

\* face_results = self.face_detection.process(img_rgb); a box per detection
FaceDetect ==
    /\ pc = "face"
    /\ \E n \in 0..MaxFaces :
          trace' = Append(trace, "face_detect") \o Repeat("face_box", n)
    /\ pc' = "hands"
    /\ UNCHANGED <<gesture_map, cap_opened, frames, num_hands,
                   multi_handedness, hand_idx, hand_landmarks,
                   handedness_label, fingers_status, swapped_status,
                   gesture_text, words, word_idx, lines, current_line, text_w,
                   glyph_w, key, n_release, n_destroy>>

\* hand_results = self.hands.process(img_rgb)
HandsProcess ==
    /\ pc = "hands"
    /\ \E n \in 0..max_num_hands, mh \in BOOLEAN :
          /\ (n = 0 => mh = FALSE)
          /\ num_hands' = n
          /\ multi_handedness' = mh
    /\ hand_idx' = 0
    /\ trace' = Append(trace, "hands_process")
    /\ pc' = "hand"
    /\ UNCHANGED <<gesture_map, cap_opened, frames, hand_landmarks,
                   handedness_label, fingers_status, swapped_status,
                   gesture_text, words, word_idx, lines, current_line, text_w,
                   glyph_w, key, n_release, n_destroy>>

\* next hand of the enumerate loop: handedness label, draw_landmarks
HandBegin ==
    /\ pc = "hand"
    /\ hand_idx < num_hands
    /\ \E lm \in RunHands, lab \in Labels :
          /\ hand_landmarks' = lm
          /\ handedness_label' = IF multi_handedness THEN lab ELSE "Right"
    /\ trace' = Append(trace, "draw_landmarks")
    /\ pc' = "fingers"
    /\ UNCHANGED <<gesture_map, cap_opened, frames, num_hands,
                   multi_handedness, hand_idx, fingers_status, swapped_status,
                   gesture_text, words, word_idx, lines, current_line, text_w,
                   glyph_w, key, n_release, n_destroy>>

\* fingers_status = self.detect_fingers(hand_landmarks, handedness_label)
DetectFingersStep ==
    /\ pc = "fingers"
    /\ fingers_status' = detect_fingers(hand_landmarks, handedness_label)
    /\ trace' = Append(trace, "detect_fingers")
    /\ pc' = "gesture"
    /\ UNCHANGED <<gesture_map, cap_opened, frames, num_hands,
                   multi_handedness, hand_idx, hand_landmarks,
                   handedness_label, swapped_status, gesture_text, words,
                   word_idx, lines, current_line, text_w, glyph_w, key,
                   n_release, n_destroy>>

\* Variant: dict.setdefault, which stores the default under a missing key.
DetectGestureStep_setdefault ==
    /\ pc = "gesture"
    /\ gesture_text' = detect_gesture(gesture_map, fingers_status)
    /\ gesture_map' = IF fingers_status \in DOMAIN gesture_map
                      THEN gesture_map
                      ELSE DictSet(gesture_map, fingers_status, L_Unknown)
    /\ trace' = Append(trace, "detect_gesture")
    /\ pc' = "status"
    /\ UNCHANGED <<cap_opened, frames, num_hands,
                   multi_handedness, hand_idx, hand_landmarks,
                   handedness_label, fingers_status, swapped_status, words,
                   word_idx, lines, current_line, text_w, glyph_w, key,
                   n_release, n_destroy>>

\* gesture_text = self.detect_gesture(fingers_status)
DetectGestureStep ==
    /\ pc = "gesture"
    /\ gesture_text' = detect_gesture(gesture_map, fingers_status)
    /\ trace' = Append(trace, "detect_gesture")
    /\ pc' = "status"
    /\ UNCHANGED <<gesture_map, cap_opened, frames, num_hands,
                   multi_handedness, hand_idx, hand_landmarks,
                   handedness_label, fingers_status, swapped_status, words,
                   word_idx, lines, current_line, text_w, glyph_w, key,
                   n_release, n_destroy>>

\* putText(status_str); words = gesture_text.split(' '); lines = []; current_line = ""
RenderStatus ==
    /\ pc = "status"
    /\ trace' = Append(trace, "put_status")
    /\ words' = Split(gesture_text)
    /\ word_idx' = 0
    /\ lines' = <<>>
    /\ current_line' = <<>>
    /\ pc' = "wrap"
    /\ UNCHANGED <<gesture_map, cap_opened, frames, num_hands,
                   multi_handedness, hand_idx, hand_landmarks,
                   handedness_label, fingers_status, swapped_status,
                   gesture_text, text_w, glyph_w, key, n_release, n_destroy>>

\* Variant: the break does not test current_line != "".
WrapStep_nocheck ==
    /\ pc = "wrap"
    /\ word_idx < Len(words)
    /\ LET word == words[word_idx + 1]
           test_line == current_line \o word \o <<" ">>
           tw == getTextSize(test_line, glyph_w)
       IN  /\ text_w' = tw
           /\ IF tw > max_width
              THEN /\ lines' = Append(lines, current_line)
                   /\ current_line' = word \o <<" ">>
              ELSE /\ lines' = lines
                   /\ current_line' = test_line
    /\ word_idx' = word_idx + 1
    /\ pc' = "wrap"
    /\ UNCHANGED <<gesture_map, cap_opened, frames, trace, num_hands,
                   multi_handedness, hand_idx, hand_landmarks,
                   handedness_label, fingers_status, swapped_status,
                   gesture_text, words, glyph_w, key, n_release, n_destroy>>

\* one iteration of "for word in words"
WrapStep ==
    /\ pc = "wrap"
    /\ word_idx < Len(words)
    /\ LET word == words[word_idx + 1]
           test_line == current_line \o word \o <<" ">>
           tw == getTextSize(test_line, glyph_w)
       IN  /\ text_w' = tw
           /\ IF tw > max_width /\ current_line # <<>>
              THEN /\ lines' = Append(lines, current_line)
                   /\ current_line' = word \o <<" ">>
              ELSE /\ lines' = lines
                   /\ current_line' = test_line
    /\ word_idx' = word_idx + 1
    /\ pc' = "wrap"
    /\ UNCHANGED <<gesture_map, cap_opened, frames, trace, num_hands,
                   multi_handedness, hand_idx, hand_landmarks,
                   handedness_label, fingers_status, swapped_status,
                   gesture_text, words, glyph_w, key, n_release, n_destroy>>

\* Variant: cv2.imshow indented into the per-hand loop.
WrapFinish_show ==
    /\ pc = "wrap"
    /\ word_idx = Len(words)
    /\ lines' = Append(lines, current_line)
    /\ trace' = Append(Append(trace, "put_text"), "imshow")
    /\ hand_idx' = hand_idx + 1
    /\ pc' = "hand"
    /\ UNCHANGED <<gesture_map, cap_opened, frames, num_hands,
                   multi_handedness, hand_landmarks, handedness_label,
                   fingers_status, swapped_status, gesture_text, words,
                   word_idx, current_line, text_w, glyph_w, key, n_release,
                   n_destroy>>

\* lines.append(current_line); background box; putText(line.strip()) per line
WrapFinish ==
    /\ pc = "wrap"
    /\ word_idx = Len(words)
    /\ lines' = Append(lines, current_line)
    /\ trace' = Append(trace, "put_text")
    /\ hand_idx' = hand_idx + 1
    /\ pc' = "hand"
    /\ UNCHANGED <<gesture_map, cap_opened, frames, num_hands,
                   multi_handedness, hand_landmarks, handedness_label,
                   fingers_status, swapped_status, gesture_text, words,
                   word_idx, current_line, text_w, glyph_w, key, n_release,
                   n_destroy>>

\* the enumerate loop is exhausted (or multi_hand_landmarks is None)
HandsDone ==
    /\ pc = "hand"
    /\ hand_idx = num_hands
    /\ pc' = "show"
    /\ UNCHANGED <<gesture_map, cap_opened, frames, trace, num_hands,
                   multi_handedness, hand_idx, hand_landmarks,
                   handedness_label, fingers_status, swapped_status,
                   gesture_text, words, word_idx, lines, current_line, text_w,
                   glyph_w, key, n_release, n_destroy>>

\* cv2.imshow(...)
ShowFrame ==
    /\ pc = "show"
    /\ trace' = Append(trace, "imshow")
    /\ pc' = "key"
    /\ UNCHANGED <<gesture_map, cap_opened, frames, num_hands,
                   multi_handedness, hand_idx, hand_landmarks,
                   handedness_label, fingers_status, swapped_status,
                   gesture_text, words, word_idx, lines, current_line, text_w,
                   glyph_w, n_release, n_destroy, key>>

\* k & 0xFF on a Python int
LowByte(k) == k % 256

\* if cv2.waitKey(1) & 0xFF == ord('q'): break
KeyPoll ==
    /\ pc = "key"
    /\ \E k \in Keys :
          /\ key' = k
          /\ pc' = IF LowByte(k) = ord_q THEN "release" ELSE "read"
    /\ trace' = Append(trace, "waitKey")
    /\ UNCHANGED <<gesture_map, cap_opened, frames, num_hands,
                   multi_handedness, hand_idx, hand_landmarks,
                   handedness_label, fingers_status, swapped_status,
                   gesture_text, words, word_idx, lines, current_line, text_w,
                   glyph_w, n_release, n_destroy>>

\* cap.release()
Release ==
    /\ pc = "release"
    /\ n_release' = n_release + 1
    /\ trace' = Append(trace, "release")
    /\ pc' = "destroy"
    /\ UNCHANGED <<gesture_map, cap_opened, frames, num_hands,
                   multi_handedness, hand_idx, hand_landmarks,
                   handedness_label, fingers_status, swapped_status,
                   gesture_text, words, word_idx, lines, current_line, text_w,
                   glyph_w, key, n_destroy>>

\* cv2.destroyAllWindows(); run returns
DestroyWindows ==
    /\ pc = "destroy"
    /\ n_destroy' = n_destroy + 1
    /\ trace' = Append(trace, "destroyAllWindows")
    /\ pc' = "done"
    /\ UNCHANGED <<gesture_map, cap_opened, frames, num_hands,
                   multi_handedness, hand_idx, hand_landmarks,
                   handedness_label, fingers_status, swapped_status,
                   gesture_text, words, word_idx, lines, current_line, text_w,
                   glyph_w, key, n_release>>

Next ==
    \/ OpenCameraFail
    \/ OpenCameraOk
    \/ ReadFrameOk
    \/ ReadFrameFail
    \/ FaceDetect
    \/ HandsProcess
    \/ HandBegin
    \/ DetectFingersStep
    \/ DetectGestureStep
    \/ RenderStatus
    \/ WrapStep
    \/ WrapFinish
    \/ HandsDone
    \/ ShowFrame
    \/ KeyPoll
    \/ Release
    \/ DestroyWindows

Spec == Init /\ [][Next]_vars

----------------------------------------------------------------------------
(* Function harness: detect_fingers and detect_gesture applied to inputs   *)
(* drawn from TestHands and TestLabels.                                    *)

InitTest ==
    /\ InitCommon
    /\ pc = "t_start"
    /\ hand_landmarks \in TestHands
    /\ handedness_label \in TestLabels
    /\ glyph_w = 1

\* fingers_status = app.detect_fingers(hand_landmarks, handedness_label)
TestDetectFingers ==
    /\ pc = "t_start"
    /\ fingers_status' = detect_fingers(hand_landmarks, handedness_label)
    /\ pc' = "t_fingers"
    /\ UNCHANGED <<gesture_map, cap_opened, frames, trace, num_hands,
                   multi_handedness, hand_idx, hand_landmarks,
                   handedness_label, swapped_status, gesture_text, words,
                   word_idx, lines, current_line, text_w, glyph_w, key,
                   n_release, n_destroy>>

\* gesture_text = app.detect_gesture(fingers_status)
TestDetectGesture ==
    /\ pc = "t_fingers"
    /\ gesture_text' = detect_gesture(gesture_map, fingers_status)
    /\ pc' = "t_gesture"
    /\ UNCHANGED <<gesture_map, cap_opened, frames, trace, num_hands,
                   multi_handedness, hand_idx, hand_landmarks,
                   handedness_label, fingers_status, swapped_status, words,
                   word_idx, lines, current_line, text_w, glyph_w, key,
                   n_release, n_destroy>>

SwapLabel(label) == IF label = "Right" THEN "Left" ELSE "Right"

\* detect_fingers again, same coordinates, the other of 'Left' / 'Right'
TestSwapLabel ==
    /\ pc = "t_gesture"
    /\ handedness_label \in Labels
    /\ swapped_status' = detect_fingers(hand_landmarks, SwapLabel(handedness_label))
    /\ pc' = "t_swapped"
    /\ UNCHANGED <<gesture_map, cap_opened, frames, trace, num_hands,
                   multi_handedness, hand_idx, hand_landmarks,
                   handedness_label, fingers_status, gesture_text, words,
                   word_idx, lines, current_line, text_w, glyph_w, key,
                   n_release, n_destroy>>

NextTest ==
    \/ TestDetectFingers
    \/ TestDetectGesture
    \/ TestSwapLabel

SpecTest == InitTest /\ [][NextTest]_vars

----------------------------------------------------------------------------
(* Properties *)

Last(q) == q[Len(q)]

Count(q, e) == Cardinality({i \in 1..Len(q) : q[i] = e})

\* The label the table holds for each finger-state vector.
ExpectedLabel(v) ==
    CASE v = <<1, 0, 0, 0, 0>> -> L_Mantap
      [] v = <<0, 1, 0, 0, 0>> -> L_NamaSaya
      [] v = <<0, 1, 1, 0, 0>> -> L_Ersaf
      [] v = <<0, 1, 1, 1, 0>> -> L_Kelas
      [] v = <<0, 1, 1, 1, 1>> -> L_XIPPLG2
      [] v = <<1, 1, 1, 1, 1>> -> L_Halo
      [] v = <<0, 1, 0, 0, 1>> -> L_RockNRoll
      [] v = <<1, 1, 0, 0, 1>> -> L_XIPPLG2
      [] v = <<0, 0, 1, 0, 0>> -> L_Rude
      [] OTHER -> L_Unknown

ExpectedKeys ==
    {<<1, 0, 0, 0, 0>>, <<0, 1, 0, 0, 0>>, <<0, 1, 1, 0, 0>>,
     <<0, 1, 1, 1, 0>>, <<0, 1, 1, 1, 1>>, <<1, 1, 1, 1, 1>>,
     <<0, 1, 0, 0, 1>>, <<1, 1, 0, 0, 1>>, <<0, 0, 1, 0, 0>>}

\* A result of detect_fingers agrees with the y rule on landmarks lm.
FourFingersByY(lm, f) ==
    /\ Len(f) = 5
    /\ f[2] = (IF lm[8].y < lm[6].y THEN 1 ELSE 0)
    /\ f[3] = (IF lm[12].y < lm[10].y THEN 1 ELSE 0)
    /\ f[4] = (IF lm[16].y < lm[14].y THEN 1 ELSE 0)
    /\ f[5] = (IF lm[20].y < lm[18].y THEN 1 ELSE 0)

\* C1: for every landmark set and every label, detect_fingers reports each
\* of index, middle, ring and pinky open (1) exactly when the tip's y is
\* strictly less than the y of the landmark two below it, and closed (0)
\* otherwise, equality included; all four are open when every tip is above
\* its joint.
C1_FourFingers ==
    /\ (pc \in {"t_fingers", "t_gesture", "t_swapped"}
          => FourFingersByY(hand_landmarks, fingers_status))
    /\ (pc = "t_swapped" => FourFingersByY(hand_landmarks, swapped_status))

C1_Witness ==
    /\ pc = "t_fingers"
    /\ handedness_label = "Other"
    /\ hand_landmarks[8].y = hand_landmarks[6].y
    /\ hand_landmarks[12].y < hand_landmarks[10].y
    /\ hand_landmarks[16].y > hand_landmarks[14].y
    /\ fingers_status[2] = 0
    /\ fingers_status[3] = 1
    /\ fingers_status[4] = 0

\* C2 as stated: on the same coordinates the labels 'Right' and 'Left'
\* always give opposite thumb states.
C2_Original ==
    pc = "t_swapped" => fingers_status[1] # swapped_status[1]

\* C2 amended: on the same coordinates the labels 'Right' and 'Left' give
\* opposite thumb states whenever the thumb tip's x differs from the adjacent
\* joint's x; when the two x are equal both labels report the thumb closed.
C2_ThumbFlip ==
    pc = "t_swapped" =>
        IF hand_landmarks[4].x # hand_landmarks[3].x
        THEN {fingers_status[1], swapped_status[1]} = {0, 1}
        ELSE fingers_status[1] = 0 /\ swapped_status[1] = 0

C2_Witness ==
    /\ pc = "t_swapped"
    /\ handedness_label = "Right"
    /\ hand_landmarks[4].x < hand_landmarks[3].x
    /\ fingers_status[1] = 1
    /\ swapped_status[1] = 0

\* C3: detect_gesture returns the string the table associates with the exact
\* vector when the vector is a key, and "Unknown Gesture" when it is not.
C3_Lookup ==
    pc \in {"t_gesture", "t_swapped"} =>
        /\ gesture_text = ExpectedLabel(fingers_status)
        /\ (fingers_status \notin ExpectedKeys <=> gesture_text = L_Unknown)

C3_Witness ==
    /\ pc = "t_gesture"
    /\ fingers_status = <<0, 0, 0, 0, 0>>
    /\ gesture_text = L_Unknown

\* C4: the all-open vector, written twice in the table, yields the later
\* label "Halo"; the earlier label "Kepalan Tangan (Fist)" is returned for
\* no vector and is held by no key.
C4_LastWriteWins ==
    /\ \A k \in DOMAIN gesture_map : gesture_map[k] # L_Fist
    /\ (pc \in {"t_gesture", "t_swapped"} =>
          /\ gesture_text # L_Fist
          /\ (fingers_status = <<1, 1, 1, 1, 1>> => gesture_text = L_Halo))

C4_Witness ==
    /\ pc = "t_gesture"
    /\ fingers_status = <<1, 1, 1, 1, 1>>
    /\ gesture_text = L_Halo

\* C5: when the camera fails to open, run logs the error and returns: no
\* frame is read, no detector is invoked, no window is shown.
C5_OpenFailure ==
    ~cap_opened =>
        /\ pc \in {"start", "done"}
        /\ frames = 0
        /\ trace = (IF pc = "done" THEN <<"print_error">> ELSE <<>>)

C5_Witness ==
    /\ pc = "done"
    /\ ~cap_opened
    /\ trace = <<"print_error">>

\* C6: the frame loop is left only by a failed frame read or by a key poll
\* whose low byte is 'q'; a failed read leaves it at once, with nothing but
\* the message, the release and the window teardown after it and no further
\* read; any other key poll leads back to the frame read.
C6_LoopExit ==
    [][ /\ (pc \in LoopPCs /\ pc' \notin LoopPCs =>
              /\ pc' = "release"
              /\ \/ pc = "read" /\ trace'[1] = "read_fail"
                 \/ pc = "key" /\ key' % 256 = 113)
        /\ (pc = "read" /\ trace'[1] = "read_fail" => pc' \notin LoopPCs)
        /\ (pc = "key" /\ key' % 256 # 113 => pc' = "read")
        /\ (pc \notin LoopPCs /\ pc # "start" =>
              frames' = frames /\ pc' \notin LoopPCs)
        /\ (trace' # <<>> /\ trace'[1] = "read_fail" =>
              \A i \in 1..Len(trace') :
                 trace'[i] \in {"read_fail", "print_read_fail", "release",
                                "destroyAllWindows"}) ]_vars

C6_Witness ==
    /\ pc = "done"
    /\ frames = 2
    /\ trace = <<"read_fail", "print_read_fail", "release", "destroyAllWindows">>

\* Calls that may directly follow one another within one loop iteration.
AllowedPairs ==
    { <<"read", "face_detect">>,
      <<"face_detect", "face_box">>, <<"face_box", "face_box">>,
      <<"face_detect", "hands_process">>, <<"face_box", "hands_process">>,
      <<"hands_process", "draw_landmarks">>, <<"hands_process", "imshow">>,
      <<"draw_landmarks", "detect_fingers">>,
      <<"detect_fingers", "detect_gesture">>,
      <<"detect_gesture", "put_status">>,
      <<"put_status", "put_text">>,
      <<"put_text", "draw_landmarks">>, <<"put_text", "imshow">>,
      <<"imshow", "waitKey">>,
      <<"waitKey", "release">>,
      <<"read_fail", "print_read_fail">>, <<"print_read_fail", "release">>,
      <<"release", "destroyAllWindows">> }

\* C7: each iteration runs capture, face detection, hand detection, then per
\* hand detect_fingers, detect_gesture and the text rendering, then one
\* display after all hands, then the key poll; the next frame is read only
\* after the key poll of the current one.
C7_FrameOrder ==
    /\ [](frames > 0 =>
            /\ trace[1] \in {"read", "read_fail"}
            /\ \A i \in 1..(Len(trace) - 1) :
                  <<trace[i], trace[i + 1]>> \in AllowedPairs
            /\ Count(trace, "imshow") <= 1
            /\ (Count(trace, "imshow") = 1 =>
                  /\ Count(trace, "put_text") = num_hands
                  /\ Count(trace, "detect_fingers") = num_hands
                  /\ Count(trace, "detect_gesture") = num_hands)
            /\ (pc = "read" => Last(trace) = "waitKey"))
    /\ [][frames' # frames =>
            /\ pc = "read"
            /\ (frames > 0 => Last(trace) = "waitKey" /\ Count(trace, "imshow") = 1)
       ]_vars

C7_Witness ==
    /\ pc = "read"
    /\ frames = 1
    /\ num_hands = 2
    /\ trace = <<"read", "face_detect", "face_box", "hands_process",
                 "draw_landmarks", "detect_fingers", "detect_gesture",
                 "put_status", "put_text",
                 "draw_landmarks", "detect_fingers", "detect_gesture",
                 "put_status", "put_text", "imshow", "waitKey">>

\* C8: the gesture table always equals its construction-time contents, and
\* the label produced for a hand is the table's label for the finger states
\* of that hand's landmarks and handedness label in the current frame.
C8_TableConstant ==
    /\ DOMAIN gesture_map = ExpectedKeys
    /\ \A k \in ExpectedKeys : gesture_map[k] = ExpectedLabel(k)
    /\ (pc \in {"status", "wrap"} =>
          gesture_text =
             ExpectedLabel(detect_fingers(hand_landmarks, handedness_label)))

\* a second frame whose hand gets "Halo" while the lines of the previous
\* hand, still in place, spell "Unknown Gesture"
C8_Witness ==
    /\ pc = "status"
    /\ frames = 2
    /\ hand_idx = 0
    /\ gesture_text = L_Halo
    /\ lines # <<>>
    /\ Strip(lines[1]) = L_Unknown

\* The words of a rendered line.
LineWords(line) == Split(Strip(line))

RECURSIVE AllWords(_)
AllWords(ls) ==
    IF ls = <<>> THEN <<>> ELSE LineWords(Head(ls)) \o AllWords(Tail(ls))

\* C9: the wrapping loop yields at least one line, no line is empty, the
\* words of the lines in order are the words of the label, a break is made
\* only when the measured width exceeds max_width and the current line is
\* non-empty, and a line of two or more words measures at most max_width.
C9_Wrapping ==
    /\ [](trace # <<>> /\ Last(trace) = "put_text" =>
            /\ Len(lines) >= 1
            /\ \A i \in 1..Len(lines) :
                  /\ lines[i] # <<>>
                  /\ Strip(lines[i]) # <<>>
                  /\ (Len(LineWords(lines[i])) >= 2 =>
                        glyph_w * Len(lines[i]) <= 200)
            /\ AllWords(lines) = Split(gesture_text))
    /\ [][pc = "wrap" /\ pc' = "wrap" /\ lines' # lines =>
            /\ text_w' > 200
            /\ current_line # <<>>
            /\ lines' = Append(lines, current_line)]_vars

\* "Ersaf Sirazi Arifin" at 15 pixels per character: two words, then one
C9_Witness ==
    /\ trace # <<>>
    /\ Last(trace) = "put_text"
    /\ gesture_text = L_Ersaf
    /\ Len(lines) = 2
    /\ Len(LineWords(lines[1])) = 2
    /\ Len(LineWords(lines[2])) = 1

\* C10: when the loop ends the camera is released and the windows are
\* destroyed exactly once each, release first, before run returns; when the
\* camera failed to open neither happens.
C10_Cleanup ==
    /\ n_destroy <= n_release
    /\ n_release <= 1
    /\ (pc \in LoopPCs \cup {"start", "release"} => n_release = 0)
    /\ (pc = "done" /\ cap_opened => n_release = 1 /\ n_destroy = 1)
    /\ (~cap_opened => n_release = 0 /\ n_destroy = 0)

C10_Witness ==
    /\ pc = "done"
    /\ cap_opened
    /\ n_release = 1
    /\ n_destroy = 1
    /\ trace[1] = "read_fail"

====
